---- MODULE Spec2Model ----
(***************************************************************************)
(* Model of the telemetry layer of fastapi-otel-integration:               *)
(*   - CustomMetricsManager (src/otel/metrics/custom_metrics_manager.py),  *)
(*     a lazily constructed singleton used from several threads; every     *)
(*     statement that reads or writes shared state is one step;            *)
(*   - the log_requests middleware and the route handlers (src/main.py);   *)
(*   - OutgoingHttpMetricsManager attribute composition                    *)
(*     (src/otel/metrics/outgoing_http_metrics_manager.py).                *)
(* Three specifications share the variables: Spec (manager, threads),      *)
(* SpecHttp (middleware), SpecAttr (attribute composition).                *)
(***************************************************************************)
EXTENDS Integers, Sequences, FiniteSets, TLC

\* ------------------------------------------------------------------ bounds
\* calls (beyond each thread's first constructor call) the threads may start
MaxOps == 3
\* requests the middleware receives
MaxRequests == 2

Threads == {1, 2}
AppNames == {"svcA", "svcB"}

\* ------------------------------------------------- values of object fields
\* An attribute that was never assigned is "absent": reading it raises
\* AttributeError; hasattr is false on it.
Absent == "absent"
None == "None"

\* A sub-manager slot: absent, None, or an object with its identity
\* (owner manager, construction number) and its bound names.
NoObj(tag) ==
    [tag |-> tag, owner |-> 0, n |-> 0, meter |-> "", app_name |-> "", service_name |-> ""]

VARIABLES
    cls_instance,   \* CustomMetricsManager._instance: 0 (None) or an instance id
    cls_lock,       \* CustomMetricsManager._lock: 0 (None) or a lock id
    lockHolder,     \* lock id -> thread holding it, or 0
    obj,            \* instance id -> its attributes
    providerSet,    \* metrics.set_meter_provider has been called
    th,             \* thread -> its position and local variables
    opsLeft,        \* calls the threads may still start
    nOutgoing,      \* instance id -> OutgoingHttpMetricsManager constructions on it
    nCreated,       \* number of instances super().__new__ produced
    initCalled,     \* instance id -> init() has been entered on it
    initDone        \* instance id -> some init() call ran to its last statement

\* ---------------------------------------------------- middleware state
VARIABLES
    hpc,            \* position of the request in log_requests
    req,            \* the request: path, method, x-tenant-id and Host headers
    resp,           \* the response log_requests returns (status 0: none yet)
    handlerCalled,  \* call_next was invoked for the request
    raised,         \* the error the downstream handler raised ("" for none)
    fault,          \* the telemetry call that fails in this request
    start_time,     \* request_start_time
    now,            \* the clock
    nReq,           \* requests received so far
    accessLog,      \* lines written by access_logger
    errorLog,       \* lines written by logger.error
    nAdd,           \* counter observations made by the handlers
    nRecord         \* histogram observations made by the handlers

httpVars ==
    <<hpc, req, resp, handlerCalled, raised, fault, start_time, now, nReq,
      accessLog, errorLog, nAdd, nRecord>>

\* ------------------------------------------- attribute composition state
VARIABLES
    env,                \* the process environment (os.getenv)
    bound,              \* app_name and service_name the sub-manager is bound to
    default_increment,  \* the default dict of increment...(extra_attributes={})
    default_record,     \* the default dict of record...(extra_attributes={})
    lastCall,           \* the last call: its arguments as the caller gave them
    lastExtra,          \* the caller's extra_attributes dict after that call
    lastObs             \* the observation that call handed to the instrument

attrVars ==
    <<env, bound, default_increment, default_record, lastCall, lastExtra, lastObs>>

\* ------------------------------------------------- process start-up state
VARIABLES
    flags,          \* the switches of os.environ read at start-up
    boot            \* position of the module-level code of main.py and its names

startVars == <<flags, boot>>

mgrVars ==
    <<cls_instance, cls_lock, lockHolder, obj, providerSet, th, opsLeft, nOutgoing,
      nCreated, initCalled, initDone>>

vars == <<mgrVars, httpVars, attrVars, startVars>>

\* what the steps of one part leave alone
notMgr == <<httpVars, attrVars, startVars>>
notHttp == <<mgrVars, attrVars, startVars>>
notAttr == <<mgrVars, httpVars, startVars>>
\* start-up runs before any thread or request exists
notStart == <<lockHolder, th, opsLeft, httpVars, attrVars>>

\* A freshly allocated instance has no attribute yet (__init__ sets them).
FreshObj ==
    [_initialized |-> Absent, _meter |-> Absent,
     _fastapi_metrics_manager |-> NoObj(Absent),
     _outgoing_http_metrics_manager |-> NoObj(Absent),
     app_name |-> Absent]

NoArg == [app_name |-> "", service_name |-> ""]

\* A thread's locals: pc (position), self (the instance its constructor call
\* returned, 0 before), lk (the lock object `with cls._lock` read), op and arg
\* (the call in progress and its arguments), caller (who entered
\* register_outgoing_http_metrics), tmp (an object constructed and not yet
\* stored), result / ret / retMeter (outcome and value of its last call).
FreshThread ==
    [pc |-> "start", self |-> 0, lk |-> 0, arg |-> NoArg, caller |-> "top",
     tmp |-> NoObj(None), result |-> "none", ret |-> NoObj(None), retMeter |-> None]

InitMgr ==
    /\ cls_instance = 0
    /\ cls_lock = 0
    /\ lockHolder = [l \in Threads |-> 0]
    /\ obj = [i \in Threads |-> FreshObj]
    /\ providerSet = FALSE
    /\ th = [t \in Threads |-> FreshThread]
    /\ opsLeft = MaxOps
    /\ nOutgoing = [i \in Threads |-> 0]
    /\ nCreated = 0
    /\ initCalled = [i \in Threads |-> FALSE]
    /\ initDone = [i \in Threads |-> FALSE]

\* --------------------------------------------------------------- helpers
Set(f, k, v) == [f EXCEPT ![k] = v]

SetAttr(i, field, v) == [obj EXCEPT ![i] = [@ EXCEPT ![field] = v]]

\* the outgoing-HTTP sub-manager slot of manager i
SlotOf(i) == obj[i]._outgoing_http_metrics_manager

\* `if not self._initialized` (lines 47, 74, 97, 110): the flag is truthy.
IsInitializedLoose(i) == obj[i]._initialized # Absent
IsInitialized(i) == obj[i]._initialized = "true"

\* OutgoingHttpMetricsManager(meter, app_name, service_name): the object and
\* the names it is bound to; i, n identify the object.
OutgoingHttpMetricsManager(i, n, meter, app, svc) ==
    [tag |-> "outgoing", owner |-> i, n |-> n, meter |-> meter,
     app_name |-> app, service_name |-> svc]

\* FastAPIMetricsManager(meter): the inbound-metrics sub-manager.
FastAPIMetricsManager(i, meter) ==
    [tag |-> "fastapi", owner |-> i, n |-> 1, meter |-> meter,
     app_name |-> "", service_name |-> ""]

Goto(t, where) == th' = [th EXCEPT ![t].pc = where]

\* A call ends: the thread is idle again with the call's outcome; the
\* call's locals are gone.
Done(t, res, m, mt) ==
    th' = [th EXCEPT ![t] =
             [pc |-> "idle", self |-> @.self, lk |-> 0, arg |-> NoArg, caller |-> "top",
              tmp |-> NoObj(None), result |-> res, ret |-> m, retMeter |-> mt]]

Finish(t, res) == Done(t, res, NoObj(None), None)

\* A call starts: the previous call's outcome is dropped.
Enter(t, where, a) ==
    th' = [th EXCEPT ![t] =
             [pc |-> where, self |-> @.self, lk |-> 0, arg |-> a, caller |-> "top",
              tmp |-> NoObj(None), result |-> "none", ret |-> NoObj(None),
              retMeter |-> None]]

\* -------------------------------------------- CustomMetricsManager() call
\* A thread calls the class: __new__ then __init__ on what __new__ returned.
CallConstructor(t) ==
    /\ \/ th[t].pc = "start"
          /\ UNCHANGED opsLeft
       \/ th[t].pc = "idle" /\ opsLeft > 0
          /\ opsLeft' = opsLeft - 1
    /\ Enter(t, "n1", NoArg)
    /\ UNCHANGED <<cls_instance, cls_lock, lockHolder, obj, providerSet, nOutgoing,
                   nCreated, initCalled, initDone, notMgr>>

\* line 17: if cls._instance is None
New_CheckInstance(t) ==
    /\ th[t].pc = "n1"
    /\ Goto(t, IF cls_instance = 0 THEN "n2" ELSE "n9")
    /\ UNCHANGED <<cls_instance, cls_lock, lockHolder, obj, providerSet, opsLeft,
                   nOutgoing, nCreated, initCalled, initDone, notMgr>>

\* line 19: if cls._lock is None
New_CheckLock(t) ==
    /\ th[t].pc = "n2"
    /\ Goto(t, IF cls_lock = 0 THEN "n3" ELSE "n4")
    /\ UNCHANGED <<cls_instance, cls_lock, lockHolder, obj, providerSet, opsLeft,
                   nOutgoing, nCreated, initCalled, initDone, notMgr>>

\* line 20: cls._lock = threading.Lock()  (the thread's own new lock object)
New_CreateLock(t) ==
    /\ th[t].pc = "n3"
    /\ cls_lock' = t
    /\ Goto(t, "n4")
    /\ UNCHANGED <<cls_instance, lockHolder, obj, providerSet, opsLeft,
                   nOutgoing, nCreated, initCalled, initDone, notMgr>>

\* line 21: `with cls._lock` evaluates cls._lock ...
New_ReadLock(t) ==
    /\ th[t].pc = "n4"
    /\ th' = [th EXCEPT ![t].pc = "n5", ![t].lk = cls_lock]
    /\ UNCHANGED <<cls_instance, cls_lock, lockHolder, obj, providerSet, opsLeft,
                   nOutgoing, nCreated, initCalled, initDone, notMgr>>

\* ... and acquires that lock object (blocks while another thread holds it)
New_Acquire(t) ==
    /\ th[t].pc = "n5"
    /\ lockHolder[th[t].lk] = 0
    /\ lockHolder' = Set(lockHolder, th[t].lk, t)
    /\ Goto(t, "n6")
    /\ UNCHANGED <<cls_instance, cls_lock, obj, providerSet, opsLeft,
                   nOutgoing, nCreated, initCalled, initDone, notMgr>>

\* line 22: if cls._instance is None (second check, under the lock)
New_Recheck(t) ==
    /\ th[t].pc = "n6"
    /\ Goto(t, IF cls_instance = 0 THEN "n7" ELSE "n8")
    /\ UNCHANGED <<cls_instance, cls_lock, lockHolder, obj, providerSet, opsLeft,
                   nOutgoing, nCreated, initCalled, initDone, notMgr>>

\* line 23: cls._instance = super().__new__(cls)
New_Create(t) ==
    /\ th[t].pc = "n7"
    /\ cls_instance' = t
    /\ nCreated' = nCreated + 1
    /\ Goto(t, "n8")
    /\ UNCHANGED <<cls_lock, lockHolder, obj, providerSet, opsLeft,
                   nOutgoing, initCalled, initDone, notMgr>>

\* line 21: leaving the with block releases the lock
New_Release(t) ==
    /\ th[t].pc = "n8"
    /\ lockHolder' = Set(lockHolder, th[t].lk, 0)
    /\ th' = [th EXCEPT ![t].pc = "n9", ![t].lk = 0]
    /\ UNCHANGED <<cls_instance, cls_lock, obj, providerSet, opsLeft,
                   nOutgoing, nCreated, initCalled, initDone, notMgr>>

\* line 24: return cls._instance
New_Return(t) ==
    /\ th[t].pc = "n9"
    /\ th' = [th EXCEPT ![t].pc = "i1", ![t].self = cls_instance]
    /\ UNCHANGED <<cls_instance, cls_lock, lockHolder, obj, providerSet, opsLeft,
                   nOutgoing, nCreated, initCalled, initDone, notMgr>>

\* line 27: if not hasattr(self, '_initialized')
Ctor_CheckAttr(t) ==
    /\ th[t].pc = "i1"
    /\ IF obj[th[t].self]._initialized = Absent THEN Goto(t, "i2") ELSE Finish(t, "ok")
    /\ UNCHANGED <<cls_instance, cls_lock, lockHolder, obj, providerSet, opsLeft,
                   nOutgoing, nCreated, initCalled, initDone, notMgr>>

\* lines 28-32: one assignment per step
CtorField(p) ==
    CASE p = "i2" -> "_initialized"
      [] p = "i3" -> "_meter"
      [] p = "i4" -> "_fastapi_metrics_manager"
      [] p = "i5" -> "_outgoing_http_metrics_manager"
      [] p = "i6" -> "app_name"

CtorValue(p) ==
    CASE p = "i2" -> "false"
      [] p = "i3" -> None
      [] p = "i4" -> NoObj(None)
      [] p = "i5" -> NoObj(None)
      [] p = "i6" -> None

CtorNext(p) ==
    CASE p = "i2" -> "i3" [] p = "i3" -> "i4" [] p = "i4" -> "i5" [] p = "i5" -> "i6"

Ctor_Assign(t) ==
    /\ th[t].pc \in {"i2", "i3", "i4", "i5", "i6"}
    /\ obj' = SetAttr(th[t].self, CtorField(th[t].pc), CtorValue(th[t].pc))
    /\ IF th[t].pc = "i6" THEN Finish(t, "ok") ELSE Goto(t, CtorNext(th[t].pc))
    /\ UNCHANGED <<cls_instance, cls_lock, lockHolder, providerSet, opsLeft,
                   nOutgoing, nCreated, initCalled, initDone, notMgr>>

\* ------------------------------------------------------------------ init
\* A thread that holds the instance calls init(application_name).
CallInit(t) ==
    /\ th[t].pc = "idle" /\ opsLeft > 0
    /\ \E name \in AppNames : Enter(t, "t1", [app_name |-> name, service_name |-> ""])
    /\ opsLeft' = opsLeft - 1
    /\ initCalled' = Set(initCalled, th[t].self, TRUE)
    /\ UNCHANGED <<cls_instance, cls_lock, lockHolder, obj, providerSet, nOutgoing,
                   nCreated, initDone, notMgr>>

\* line 47: if not self._initialized (else the call returns at once)
Init_Check(t) ==
    /\ th[t].pc = "t1"
    /\ IF IsInitialized(th[t].self) THEN Finish(t, "ok") ELSE Goto(t, "t2")
    /\ UNCHANGED <<cls_instance, cls_lock, lockHolder, obj, providerSet, opsLeft,
                   nOutgoing, nCreated, initCalled, initDone, notMgr>>

\* line 59: metrics.set_meter_provider(MeterProvider())
Init_SetProvider(t) ==
    /\ th[t].pc = "t2"
    /\ providerSet' = TRUE
    /\ Goto(t, "t3")
    /\ UNCHANGED <<cls_instance, cls_lock, lockHolder, obj, opsLeft,
                   nOutgoing, nCreated, initCalled, initDone, notMgr>>

\* line 60: self.app_name = application_name
Init_SetAppName(t) ==
    /\ th[t].pc = "t3"
    /\ obj' = SetAttr(th[t].self, "app_name", th[t].arg.app_name)
    /\ Goto(t, "t4")
    /\ UNCHANGED <<cls_instance, cls_lock, lockHolder, providerSet, opsLeft,
                   nOutgoing, nCreated, initCalled, initDone, notMgr>>

\* line 61: self._meter = metrics.get_meter(application_name)
\* (the handle is identified by the name it was obtained for)
Init_SetMeter(t) ==
    /\ th[t].pc = "t4"
    /\ obj' = SetAttr(th[t].self, "_meter", th[t].arg.app_name)
    /\ Goto(t, "t5")
    /\ UNCHANGED <<cls_instance, cls_lock, lockHolder, providerSet, opsLeft,
                   nOutgoing, nCreated, initCalled, initDone, notMgr>>

\* line 62: self._initialized = True
Init_SetFlag(t) ==
    /\ th[t].pc = "t5"
    /\ obj' = SetAttr(th[t].self, "_initialized", "true")
    /\ initDone' = Set(initDone, th[t].self, TRUE)
    /\ Finish(t, "ok")
    /\ UNCHANGED <<cls_instance, cls_lock, lockHolder, providerSet, opsLeft,
                   nOutgoing, nCreated, initCalled, notMgr>>

\* ------------------------------------------------------------- get_meter
\* lines 64-68: return self._meter
GetMeter(t) ==
    /\ th[t].pc = "idle" /\ opsLeft > 0
    /\ opsLeft' = opsLeft - 1
    /\ IF obj[th[t].self]._meter = Absent
       THEN Finish(t, "AttributeError")
       ELSE Done(t, "ok", NoObj(None), obj[th[t].self]._meter)
    /\ UNCHANGED <<cls_instance, cls_lock, lockHolder, obj, providerSet, nOutgoing,
                   nCreated, initCalled, initDone, notMgr>>

\* ------------------------------ get_or_create_outgoing_http_metrics_manager
CallGetOrCreate(t) ==
    /\ th[t].pc = "idle" /\ opsLeft > 0
    /\ opsLeft' = opsLeft - 1
    /\ Enter(t, "g1", NoArg)
    /\ UNCHANGED <<cls_instance, cls_lock, lockHolder, obj, providerSet, nOutgoing,
                   nCreated, initCalled, initDone, notMgr>>

\* lines 74-75: if not self._initialized: raise RuntimeError
G_Check(t) ==
    /\ th[t].pc = "g1"
    /\ IF IsInitialized(th[t].self) THEN Goto(t, "g2") ELSE Finish(t, "RuntimeError")
    /\ UNCHANGED <<cls_instance, cls_lock, lockHolder, obj, providerSet, opsLeft,
                   nOutgoing, nCreated, initCalled, initDone, notMgr>>

\* line 77: if self._outgoing_http_metrics_manager is None
G_IsNone(t) ==
    /\ th[t].pc = "g2"
    /\ LET m == obj[th[t].self]._outgoing_http_metrics_manager IN
       IF m.tag = Absent THEN Finish(t, "AttributeError")
       ELSE Goto(t, IF m.tag = None THEN "g3" ELSE "g5")
    /\ UNCHANGED <<cls_instance, cls_lock, lockHolder, obj, providerSet, opsLeft,
                   nOutgoing, nCreated, initCalled, initDone, notMgr>>

\* line 78: the two arguments self.app_name, self.app_name are read in turn,
\* then register_outgoing_http_metrics is entered
G_ReadAppName(t) ==
    /\ th[t].pc \in {"g3", "g4"}
    /\ LET a == obj[th[t].self].app_name IN
       IF a = Absent THEN Finish(t, "AttributeError")
       ELSE IF th[t].pc = "g3"
            THEN th' = [th EXCEPT ![t].pc = "g4", ![t].arg.app_name = a]
            ELSE th' = [th EXCEPT ![t].pc = "r1", ![t].arg.service_name = a,
                                  ![t].caller = "get_or_create"]
    /\ UNCHANGED <<cls_instance, cls_lock, lockHolder, obj, providerSet, opsLeft,
                   nOutgoing, nCreated, initCalled, initDone, notMgr>>

\* line 80: return self._outgoing_http_metrics_manager
G_Return(t) ==
    /\ th[t].pc = "g5"
    /\ LET m == obj[th[t].self]._outgoing_http_metrics_manager IN
       IF m.tag = Absent THEN Finish(t, "AttributeError") ELSE Done(t, "ok", m, None)
    /\ UNCHANGED <<cls_instance, cls_lock, lockHolder, obj, providerSet, opsLeft,
                   nOutgoing, nCreated, initCalled, initDone, notMgr>>

\* ------------------------------------------ register_outgoing_http_metrics
CallRegisterOutgoing(t) ==
    /\ th[t].pc = "idle" /\ opsLeft > 0
    /\ opsLeft' = opsLeft - 1
    /\ \E a \in AppNames, s \in AppNames :
          Enter(t, "r1", [app_name |-> a, service_name |-> s])
    /\ UNCHANGED <<cls_instance, cls_lock, lockHolder, obj, providerSet, nOutgoing,
                   nCreated, initCalled, initDone, notMgr>>

\* register_outgoing_http_metrics returns: to line 80 of get_or_create when
\* called from there, else to the thread
Return_Register(t) ==
    IF th[t].caller = "get_or_create"
    THEN th' = [th EXCEPT ![t].pc = "g5", ![t].tmp = NoObj(None), ![t].arg = NoArg]
    ELSE Finish(t, "ok")

\* lines 110-111: if not self._initialized: raise RuntimeError
R_Check(t) ==
    /\ th[t].pc = "r1"
    /\ IF IsInitialized(th[t].self) THEN Goto(t, "r2") ELSE Finish(t, "RuntimeError")
    /\ UNCHANGED <<cls_instance, cls_lock, lockHolder, obj, providerSet, opsLeft,
                   nOutgoing, nCreated, initCalled, initDone, notMgr>>

\* line 113: if self._outgoing_http_metrics_manager is None
R_IsNoneAlways(t) ==
    /\ th[t].pc = "r2"
    /\ Goto(t, "r3")
    /\ UNCHANGED <<cls_instance, cls_lock, lockHolder, obj, providerSet, opsLeft,
                   nOutgoing, nCreated, initCalled, initDone, notMgr>>

R_IsNone(t) ==
    /\ th[t].pc = "r2"
    /\ LET m == obj[th[t].self]._outgoing_http_metrics_manager IN
       IF m.tag = Absent THEN Finish(t, "AttributeError")
       ELSE IF m.tag = None THEN Goto(t, "r3")
       ELSE Return_Register(t)
    /\ UNCHANGED <<cls_instance, cls_lock, lockHolder, obj, providerSet, opsLeft,
                   nOutgoing, nCreated, initCalled, initDone, notMgr>>

\* line 115, right-hand side: OutgoingHttpMetricsManager(self._meter, app_name,
\* service_name); its _setup calls meter.create_counter / create_histogram,
\* which fails on a meter that is None
R_Construct(t) ==
    /\ th[t].pc = "r3"
    /\ LET i == th[t].self IN
       IF obj[i]._meter \in {Absent, None}
       THEN Finish(t, "AttributeError") /\ UNCHANGED nOutgoing
       ELSE /\ nOutgoing' = Set(nOutgoing, i, nOutgoing[i] + 1)
            /\ th' = [th EXCEPT ![t].pc = "r4",
                                ![t].tmp = OutgoingHttpMetricsManager(
                                    i, nOutgoing[i] + 1, obj[i]._meter,
                                    th[t].arg.app_name, th[t].arg.service_name)]
    /\ UNCHANGED <<cls_instance, cls_lock, lockHolder, obj, providerSet, opsLeft,
                   nCreated, initCalled, initDone, notMgr>>

\* line 115, the store into self._outgoing_http_metrics_manager
R_Assign(t) ==
    /\ th[t].pc = "r4"
    /\ obj' = SetAttr(th[t].self, "_outgoing_http_metrics_manager", th[t].tmp)
    /\ Return_Register(t)
    /\ UNCHANGED <<cls_instance, cls_lock, lockHolder, providerSet, opsLeft,
                   nOutgoing, nCreated, initCalled, initDone, notMgr>>

\* ------------------------------------------------ register_fastapi_metrics
CallRegisterFastapi(t) ==
    /\ th[t].pc = "idle" /\ opsLeft > 0
    /\ opsLeft' = opsLeft - 1
    /\ \E s \in AppNames : Enter(t, "f1", [app_name |-> "", service_name |-> s])
    /\ UNCHANGED <<cls_instance, cls_lock, lockHolder, obj, providerSet, nOutgoing,
                   nCreated, initCalled, initDone, notMgr>>

\* lines 97-98: if not self._initialized: raise RuntimeError
F_Check(t) ==
    /\ th[t].pc = "f1"
    /\ IF IsInitialized(th[t].self) THEN Goto(t, "f2") ELSE Finish(t, "RuntimeError")
    /\ UNCHANGED <<cls_instance, cls_lock, lockHolder, obj, providerSet, opsLeft,
                   nOutgoing, nCreated, initCalled, initDone, notMgr>>

\* line 100: if self._fastapi_metrics_manager is None
F_IsNone(t) ==
    /\ th[t].pc = "f2"
    /\ LET m == obj[th[t].self]._fastapi_metrics_manager IN
       IF m.tag = Absent THEN Finish(t, "AttributeError")
       ELSE IF m.tag = None THEN Goto(t, "f3")
       ELSE Finish(t, "ok")
    /\ UNCHANGED <<cls_instance, cls_lock, lockHolder, obj, providerSet, opsLeft,
                   nOutgoing, nCreated, initCalled, initDone, notMgr>>

\* lines 103-104: self._fastapi_metrics_manager = FastAPIMetricsManager(self._meter),
\* then register_for_metrics(app, service_name) on it
F_Construct(t) ==
    /\ th[t].pc = "f3"
    /\ LET i == th[t].self IN
       IF obj[i]._meter = Absent
       THEN Finish(t, "AttributeError") /\ UNCHANGED obj
       ELSE /\ obj' = SetAttr(i, "_fastapi_metrics_manager",
                              FastAPIMetricsManager(i, obj[i]._meter))
            /\ Finish(t, "ok")
    /\ UNCHANGED <<cls_instance, cls_lock, lockHolder, providerSet, opsLeft,
                   nOutgoing, nCreated, initCalled, initDone, notMgr>>

\* --------------------------------------------------------- specification
ThreadStep(t) ==
    \/ CallConstructor(t)
    \/ New_CheckInstance(t)
    \/ New_CheckLock(t)
    \/ New_CreateLock(t)
    \/ New_ReadLock(t)
    \/ New_Acquire(t)
    \/ New_Recheck(t)
    \/ New_Create(t)
    \/ New_Release(t)
    \/ New_Return(t)
    \/ Ctor_CheckAttr(t)
    \/ Ctor_Assign(t)
    \/ CallInit(t)
    \/ Init_Check(t)
    \/ Init_SetProvider(t)
    \/ Init_SetAppName(t)
    \/ Init_SetMeter(t)
    \/ Init_SetFlag(t)
    \/ GetMeter(t)
    \/ CallGetOrCreate(t)
    \/ G_Check(t)
    \/ G_IsNone(t)
    \/ G_ReadAppName(t)
    \/ G_Return(t)
    \/ CallRegisterOutgoing(t)
    \/ R_Check(t)
    \/ R_IsNone(t)
    \/ R_Construct(t)
    \/ R_Assign(t)
    \/ CallRegisterFastapi(t)
    \/ F_Check(t)
    \/ F_IsNone(t)
    \/ F_Construct(t)

Next == \E t \in Threads : ThreadStep(t)

\* ======================================================== the middleware
\* Paths are sequences of characters, so that str.startswith is computed.
P_root == <<"/">>
P_hello == <<"/", "h", "e", "l", "l", "o">>
P_trust3 == <<"/", "t", "r", "u", "s", "t", "3">>
P_snowflake == <<"/", "s", "n", "o", "w", "f", "l", "a", "k", "e">>
P_salesforce == <<"/", "s", "a", "l", "e", "s", "f", "o", "r", "c", "e">>
P_exception == <<"/", "e", "x", "c", "e", "p", "t", "i", "o", "n">>
P_bad_request == <<"/", "b", "a", "d", "-", "r", "e", "q", "u", "e", "s", "t">>
P_create_resource == <<"/", "c", "r", "e", "a", "t", "e", "-", "r", "e", "s", "o", "u", "r", "c", "e">>
P_healthcheck_status == <<"/", "a", "p", "i", "/", "h", "e", "a", "l", "t", "h", "c", "h", "e", "c", "k", "/", "s", "t", "a", "t", "u", "s">>
P_api == <<"/", "a", "p", "i">>
P_api_v1 == <<"/", "a", "p", "i", "/", "v", "1">>
P_apiary == <<"/", "a", "p", "i", "a", "r", "y">>
P_api_healthcheckz == <<"/", "a", "p", "i", "/", "h", "e", "a", "l", "t", "h", "c", "h", "e", "c", "k", "z">>
P_public_api_v1 == <<"/", "p", "u", "b", "l", "i", "c", "/", "a", "p", "i", "/", "v", "1">>
P_public_api_healthcheck == <<"/", "p", "u", "b", "l", "i", "c", "/", "a", "p", "i", "/", "h", "e", "a", "l", "t", "h", "c", "h", "e", "c", "k">>
P_public_v1 == <<"/", "p", "u", "b", "l", "i", "c", "/", "v", "1">>

\* the prefixes line 77 tests
PrefixHealthcheck == <<"/", "a", "p", "i", "/", "h", "e", "a", "l", "t", "h", "c", "h", "e", "c", "k">>
PrefixPublicApi == <<"/", "p", "u", "b", "l", "i", "c", "/", "a", "p", "i">>
PrefixApi == <<"/", "a", "p", "i">>

Paths ==
    {P_root, P_hello, P_trust3, P_snowflake, P_salesforce, P_exception, P_bad_request,
     P_create_resource, P_healthcheck_status, P_api, P_api_v1, P_apiary,
     P_api_healthcheckz, P_public_api_v1, P_public_api_healthcheck, P_public_v1}

\* The request lines the clients send: every path with GET, and POST to its
\* route, to a GET-only route and to a protected path.
RequestLines ==
    {<<"GET", p>> : p \in Paths}
        \cup {<<"POST", P_create_resource>>, <<"POST", P_hello>>, <<"POST", P_api_v1>>}

\* The x-tenant-id header: not sent, or sent with a value.
NoHeader == "<absent>"
TenantHeaders == {NoHeader, "N/A", "t1"}
HostHeaders == {"svc:8000"}
Faults == {"none", "add", "record"}

\* str.startswith
StartsWith(s, prefix) ==
    /\ Len(s) >= Len(prefix)
    /\ SubSeq(s, 1, Len(prefix)) = prefix

\* headers.get(name, 'N/A')
HeaderGet(h) == IF h = NoHeader THEN "N/A" ELSE h

NoBody == [kind |-> "none", text |-> "", path |-> <<>>, detail |-> ""]
NoResp == [status |-> 0, body |-> NoBody]
NoReq == [path |-> <<>>, method |-> "", tenant |-> NoHeader, host |-> NoHeader]

JSON(status, kind, text) ==
    [status |-> status, body |-> [kind |-> kind, text |-> text, path |-> <<>>, detail |-> ""]]

\* line 78: the 400 response; its message ends with the request path
MissingTenantResponse(path) ==
    [status |-> 400,
     body |-> [kind |-> "Bad Request",
               text |-> "Missing 'x-tenant-id' header in the request: ",
               path |-> path, detail |-> ""]]

\* lines 85-92: the response substituted for a handler failure
ErrorResponseLeaky(e) ==
    [status |-> 500,
     body |-> [kind |-> "error_code 500, success false",
               text |-> "An unexpected error occurred. Please try again later.",
               path |-> <<>>, detail |-> e]]
ErrorResponse(e) ==
    [status |-> 500,
     body |-> [kind |-> "error_code 500, success false",
               text |-> "An unexpected error occurred. Please try again later.",
               path |-> <<>>, detail |-> ""]]

\* line 77: the condition of the short circuit
ShortCircuitsNoExemption(path, tenant_id) ==
    /\ StartsWith(path, PrefixPublicApi) \/ StartsWith(path, PrefixApi)
    /\ tenant_id = "N/A"
ShortCircuits(path, tenant_id) ==
    /\ ~StartsWith(path, PrefixHealthcheck)
    /\ StartsWith(path, PrefixPublicApi) \/ StartsWith(path, PrefixApi)
    /\ tenant_id = "N/A"

\* lines 98-157: the routes. A handler is [telemetry, status, duration, raises,
\* response]: the status and duration it reports to the metrics manager (0, 0 when
\* it records nothing), the error it raises ("" when it returns), its response.
Handler(telemetry, status, duration, raises, response) ==
    [telemetry |-> telemetry, status |-> status, duration |-> duration,
     raises |-> raises, response |-> response]

Route(method, path) ==
    CASE method = "GET" /\ path \in {P_root, P_healthcheck_status} ->
            Handler(FALSE, 0, 0, "", JSON(200, "text", "PAIG Guardrails Running..."))
      [] method = "GET" /\ path = P_hello ->
            Handler(FALSE, 0, 0, "", JSON(200, "message", "Hello World"))
      [] method = "GET" /\ path = P_trust3 ->
            Handler(TRUE, 200, 100, "", JSON(200, "message", "Trust3 Called"))
      [] method = "GET" /\ path = P_snowflake ->
            Handler(TRUE, 200, 150, "", JSON(200, "message", "Snowflake Called"))
      [] method = "GET" /\ path = P_salesforce ->
            Handler(TRUE, 200, 200, "", JSON(200, "message", "Salesforce Called"))
      [] method = "GET" /\ path = P_exception ->
            Handler(TRUE, 500, 250, "Exception", NoResp)
      [] method = "GET" /\ path = P_bad_request ->
            Handler(TRUE, 400, 100, "",
                    JSON(400, "Bad Request",
                         "This endpoint intentionally returns a 400 status code"))
      [] method = "POST" /\ path = P_create_resource ->
            Handler(TRUE, 201, 100, "", JSON(201, "created", "Resource created successfully"))
      [] OTHER ->
            \* no route for the method and path: the framework's router answers
            IF path \in {P_root, P_healthcheck_status, P_hello, P_trust3, P_snowflake,
                         P_salesforce, P_exception, P_bad_request, P_create_resource}
            THEN Handler(FALSE, 0, 0, "", JSON(405, "detail", "Method Not Allowed"))
            ELSE Handler(FALSE, 0, 0, "", JSON(404, "detail", "Not Found"))

\* What call_next(request) does when telemetry call f fails: the handler's
\* increment (first) and record (second) calls are not guarded, so a failing
\* call raises out of the handler.
\* [adds, records, raises, response]
CallNext(method, path, f) ==
    LET h == Route(method, path) IN
    IF ~h.telemetry
    THEN [adds |-> 0, records |-> 0, raises |-> h.raises, response |-> h.response]
    ELSE IF f = "add"
    THEN [adds |-> 0, records |-> 0, raises |-> "counter add failed", response |-> NoResp]
    ELSE IF f = "record"
    THEN [adds |-> 1, records |-> 0, raises |-> "histogram record failed",
          response |-> NoResp]
    ELSE [adds |-> 1, records |-> 1, raises |-> h.raises, response |-> h.response]

\* lines 54-56: routes_to_ignore
IgnoredNothing(path) == FALSE
Ignored(path) == path \in {P_root}

\* lines 58-68: the access-log line (rid: the request it was written for)
AccessLine(rid, r, response, started, ended) ==
    [rid |-> rid, host |-> HeaderGet(r.host), tenant_id |-> HeaderGet(r.tenant),
     method |-> r.method, path |-> r.path, status_code |-> response.status,
     elapsed_time_ms |-> (ended - started) * 1000]

InitHttp ==
    /\ hpc = "idle"
    /\ req = NoReq
    /\ resp = NoResp
    /\ handlerCalled = FALSE
    /\ raised = ""
    /\ fault = "none"
    /\ start_time = 0
    /\ now = 0
    /\ nReq = 0
    /\ accessLog = <<>>
    /\ errorLog = <<>>
    /\ nAdd = 0
    /\ nRecord = 0

\* A request arrives at the middleware. lines 73-76: the start time is taken.
Receive ==
    /\ hpc \in {"idle", "done"}
    /\ nReq < MaxRequests
    /\ \E rl \in RequestLines, tn \in TenantHeaders, h \in HostHeaders :
          req' = [path |-> rl[2], method |-> rl[1], tenant |-> tn, host |-> h]
    /\ fault' = "none"
    /\ nReq' = nReq + 1
    /\ start_time' = now
    /\ resp' = NoResp
    /\ handlerCalled' = FALSE
    /\ raised' = ""
    /\ hpc' = "check"
    /\ UNCHANGED <<now, accessLog, errorLog, nAdd, nRecord, notHttp>>

\* lines 77-78: the tenant-header precondition
Precheck ==
    /\ hpc = "check"
    /\ IF ShortCircuits(req.path, HeaderGet(req.tenant))
       THEN resp' = MissingTenantResponse(req.path) /\ hpc' = "done"
       ELSE resp' = resp /\ hpc' = "call"
    /\ UNCHANGED <<req, handlerCalled, raised, fault, start_time, now, nReq,
                   accessLog, errorLog, nAdd, nRecord, notHttp>>

\* lines 81-92: try: response = await call_next(request); except Exception: log the
\* error with the tenant id and substitute the 500 response. The handler takes
\* one tick of the clock. The environment decides which telemetry call of the
\* handler, if any, fails.
Dispatch ==
    /\ hpc = "call"
    /\ \E f \in Faults :
       LET out == CallNext(req.method, req.path, f) IN
       /\ fault' = (IF Route(req.method, req.path).telemetry THEN f ELSE "none")
       /\ handlerCalled' = TRUE
       /\ nAdd' = nAdd + out.adds
       /\ nRecord' = nRecord + out.records
       /\ raised' = out.raises
       /\ IF out.raises # ""
          THEN /\ errorLog' = Append(errorLog,
                                     [tenant_id |-> HeaderGet(req.tenant), e |-> out.raises])
               /\ resp' = ErrorResponse(out.raises)
          ELSE /\ errorLog' = errorLog
               /\ resp' = out.response
    /\ now' = now + 1
    /\ hpc' = "log"
    /\ UNCHANGED <<req, start_time, nReq, accessLog, notHttp>>

\* lines 94-95: log_access_request(request, response, request_start_time), then
\* return response
LogAndReturn ==
    /\ hpc = "log"
    /\ IF Ignored(req.path)
       THEN accessLog' = accessLog
       ELSE accessLog' = Append(accessLog, AccessLine(nReq, req, resp, start_time, now))
    /\ hpc' = "done"
    /\ UNCHANGED <<req, resp, handlerCalled, raised, fault, start_time, now,
                   nReq, errorLog, nAdd, nRecord, notHttp>>

NextHttp ==
    \/ Receive
    \/ Precheck
    \/ Dispatch
    \/ LogAndReturn

\* ================================================= attribute composition
\* A dict is a function from its keys to their values.
EmptyDict == [k \in {} |-> ""]

\* dict.update(other): other's entries replace and extend the dict's
Update(d, other) ==
    [k \in DOMAIN d \cup DOMAIN other |-> IF k \in DOMAIN other THEN other[k] ELSE d[k]]

\* d[key] = value
SetItemIfAbsent(d, key, value) ==
    [k \in DOMAIN d \cup {key} |-> IF k \in DOMAIN d THEN d[k] ELSE value]
SetItem(d, key, value) ==
    [k \in DOMAIN d \cup {key} |-> IF k = key THEN value ELSE d[k]]

Unset == "<unset>"

\* os.getenv(name, default)
Getenv(name, default) == IF env[name] = Unset THEN default ELSE env[name]

\* otel_global_attributes.py lines 3-11
get_global_attributes ==
    IF env["SET_GLOBAL_OTEL_ATTRIBUTES"] # Unset /\ env["SET_GLOBAL_OTEL_ATTRIBUTES"] = "true"
    THEN [k8s_namespace_name |-> Getenv("K8S_NAMESPACE_NAME", "unknown"),
          k8s_pod_name |-> Getenv("K8S_POD_NAME", "unknown"),
          tenant_id |-> Getenv("TENANT_ID", "unknown")]
    ELSE EmptyDict

\* outgoing_http_metrics_manager.py lines 39-58
_get_attributes_extra_first(method, path, extra_attributes) ==
    Update(Update(get_global_attributes, extra_attributes),
           [method |-> method, path |-> path,
            app_name |-> bound.app_name, service_name |-> bound.service_name])
_get_attributes(method, path, extra_attributes) ==
    Update(Update(get_global_attributes,
                  [method |-> method, path |-> path,
                   app_name |-> bound.app_name, service_name |-> bound.service_name]),
           extra_attributes)

\* the inputs of the calls
CallMethods == {"GET", "POST"}
CallPaths == {P_trust3, P_exception}
StatusCodes == {200, 500}
Durations == {100}
\* extra_attributes dicts the callers pass
ExtraDicts ==
    {EmptyDict, [status_code |-> 404], [method |-> "PATCH"], [tenant_id |-> "t9"],
     [region |-> "eu", app_name |-> "other"]}

Environments ==
    [SET_GLOBAL_OTEL_ATTRIBUTES : {Unset, "true", "True", "false"},
     K8S_NAMESPACE_NAME : {Unset, "ns1"},
     K8S_POD_NAME : {"pod1"},
     TENANT_ID : {Unset, "acme"}]

NoCall ==
    [fn |-> "none", method |-> "", path |-> <<>>, status_code |-> 0, duration |-> 0,
     omitted |-> TRUE, extra |-> EmptyDict]
NoObs == [instrument |-> "none", value |-> 0, attributes |-> EmptyDict]

\* the attribute layer before any call, in a given environment
AttrStart(e, app, svc) ==
    /\ env = e
    /\ bound = [app_name |-> app, service_name |-> svc]
    /\ default_increment = EmptyDict
    /\ default_record = EmptyDict
    /\ lastCall = NoCall
    /\ lastExtra = EmptyDict
    /\ lastObs = NoObs

InitAttr ==
    \E e \in Environments, app \in AppNames :
        AttrStart(e, app, CHOOSE svc \in AppNames : svc # app)

\* the one environment of the specifications that make no metrics call
AttrIdle ==
    AttrStart([SET_GLOBAL_OTEL_ATTRIBUTES |-> Unset, K8S_NAMESPACE_NAME |-> Unset,
               K8S_POD_NAME |-> Unset, TENANT_ID |-> Unset], "svcA", "svcA")

\* lines 60-64: increment_outgoing_http_requests_sent_count(method, path[, extra])
\* omitted: the caller passes no extra_attributes, so the default dict is used
Increment ==
    \E method \in CallMethods, path \in CallPaths, omitted \in BOOLEAN, given \in ExtraDicts :
        LET extra_attributes == IF omitted THEN default_increment ELSE given IN
        /\ omitted => given = EmptyDict
        /\ lastObs' = [instrument |-> "outgoing_http_requests_sent_count", value |-> 1,
                       attributes |-> _get_attributes(method, path, extra_attributes)]
        /\ lastCall' = [fn |-> "increment", method |-> method, path |-> path,
                        status_code |-> 0, duration |-> 0, omitted |-> omitted,
                        extra |-> given]
        /\ lastExtra' = extra_attributes
        /\ UNCHANGED <<env, bound, default_increment, default_record, notAttr>>

\* lines 66-74: record_outgoing_http_requests_duration_milliseconds(method, path,
\* status_code, duration[, extra]); line 70 writes status_code into the dict it
\* was given, which is the shared default when the caller passed none
Record ==
    \E method \in CallMethods, path \in CallPaths, status_code \in StatusCodes,
       duration \in Durations, omitted \in BOOLEAN, given \in ExtraDicts :
        LET extra_attributes ==
                SetItem(IF omitted THEN default_record ELSE given,
                        "status_code", status_code) IN
        /\ omitted => given = EmptyDict
        /\ default_record' = IF omitted THEN extra_attributes ELSE default_record
        /\ lastObs' = [instrument |-> "outgoing_http_requests_duration_milliseconds",
                       value |-> duration,
                       attributes |-> _get_attributes(method, path, extra_attributes)]
        /\ lastCall' = [fn |-> "record", method |-> method, path |-> path,
                        status_code |-> status_code, duration |-> duration,
                        omitted |-> omitted, extra |-> given]
        /\ lastExtra' = extra_attributes
        /\ UNCHANGED <<env, bound, default_increment, notAttr>>

NextAttr ==
    \/ Increment
    \/ Record

\* ======================================================= process start-up
\* The module-level code of main.py (lines 44-51) and what it calls, run once
\* by the importing thread: each call runs to its end before the next starts.
FlagNames ==
    {"APP_TRACING_ENABLED", "OTEL_ENABLE_LOG_EXPORT", "OTEL_ENABLE_CUSTOM_METRICS",
     "OTEL_ENABLE_FASTAPI_METRICS", "OTEL_ENABLE_OUTGOING_HTTP_METRICS",
     "OTEL_ENABLE_PYROSCOPE", "APP_NAME"}

\* the environments the process may be started in
FlagEnvironments ==
    [APP_TRACING_ENABLED : {Unset, "true", "TRUE", "false"},
     OTEL_ENABLE_LOG_EXPORT : {Unset, "true"},
     OTEL_ENABLE_CUSTOM_METRICS : {Unset, "true", "TRUE", "false"},
     OTEL_ENABLE_FASTAPI_METRICS : {Unset, "true"},
     OTEL_ENABLE_OUTGOING_HTTP_METRICS : {Unset, "true", "TRUE", "false"},
     OTEL_ENABLE_PYROSCOPE : {Unset, "true"},
     APP_NAME : {Unset, "svcA"}]

NoFlags == [n \in FlagNames |-> Unset]

\* str.lower() on the values a switch takes
Lower(s) == IF s = "TRUE" THEN "true" ELSE s

\* os.environ.get(name, default)
EnvironGet(name, default) == IF flags[name] = Unset THEN default ELSE flags[name]

\* os.environ.get(name, "false").lower() == "true"
Enabled(name) == Lower(EnvironGet(name, "false")) = "true"

\* otel_utils.py lines 8-10
is_app_tracing_enabled == Enabled("APP_TRACING_ENABLED")

\* before main.py line 48: nothing set up, no name bound
BootStart ==
    [pc |-> "load_configs", service_name |-> "", custom_metrics_manager |-> 0,
     outgoing_http_metrics_manager |-> NoObj(Absent), error |-> "", done |-> {}]

BootIdle == flags = NoFlags /\ boot = BootStart

InitStart == flags \in FlagEnvironments /\ boot = BootStart

At(where) == boot.pc = where /\ boot.error = ""

\* CustomMetricsManager() run to its end by the only thread: __new__ (lines
\* 16-24) creates the lock and the instance when there is none, __init__
\* (lines 26-32) sets the fields when _initialized is not set yet.
Construct(next) ==
    LET i == IF cls_instance = 0 THEN nCreated + 1 ELSE cls_instance IN
    /\ cls_lock' = IF cls_instance = 0 /\ cls_lock = 0 THEN 1 ELSE cls_lock
    /\ cls_instance' = i
    /\ nCreated' = IF cls_instance = 0 THEN nCreated + 1 ELSE nCreated
    /\ obj' = IF obj[i]._initialized = Absent
              THEN [obj EXCEPT ![i] =
                      [_initialized |-> "false", _meter |-> None,
                       _fastapi_metrics_manager |-> NoObj(None),
                       _outgoing_http_metrics_manager |-> NoObj(None),
                       app_name |-> None]]
              ELSE obj
    /\ boot' = [boot EXCEPT !.pc = next, !.custom_metrics_manager = i]

\* main.py line 48, load_configs lines 32-41
LoadConfigs ==
    /\ At("load_configs")
    /\ boot' = [boot EXCEPT
                  !.pc = IF is_app_tracing_enabled THEN "log_export" ELSE "main_manager",
                  !.service_name = IF is_app_tracing_enabled
                                   THEN EnvironGet("APP_NAME", "trust3_iq") ELSE @,
                  !.done = @ \cup {"log_files"}]
    /\ UNCHANGED <<flags, cls_instance, cls_lock, obj, providerSet, nOutgoing,
                   nCreated, initCalled, initDone, notStart>>

\* setup_otel lines 33-39
Setup_LogExport ==
    /\ At("log_export")
    /\ boot' = [boot EXCEPT
                  !.pc = "custom_metrics",
                  !.done = IF Enabled("OTEL_ENABLE_LOG_EXPORT")
                           THEN @ \cup {"otel_logging_handler"} ELSE @]
    /\ UNCHANGED <<flags, cls_instance, cls_lock, obj, providerSet, nOutgoing,
                   nCreated, initCalled, initDone, notStart>>

\* setup_otel lines 42-43, 64-65
Setup_CustomMetrics ==
    /\ At("custom_metrics")
    /\ boot' = [boot EXCEPT
                  !.pc = IF Enabled("OTEL_ENABLE_CUSTOM_METRICS")
                         THEN "setup_manager" ELSE "pyroscope"]
    /\ UNCHANGED <<flags, cls_instance, cls_lock, obj, providerSet, nOutgoing,
                   nCreated, initCalled, initDone, notStart>>

\* setup_otel line 46: custom_metrics_manager = CustomMetricsManager()
Setup_Manager ==
    /\ At("setup_manager")
    /\ Construct("setup_init")
    /\ UNCHANGED <<flags, providerSet, nOutgoing, initCalled, initDone, notStart>>

\* setup_otel line 47: custom_metrics_manager.init(service_name)
\* (custom_metrics_manager.py lines 47-62)
Setup_Init ==
    LET i == boot.custom_metrics_manager IN
    /\ At("setup_init")
    /\ initCalled' = Set(initCalled, i, TRUE)
    /\ IF IsInitialized(i)
       THEN UNCHANGED <<obj, providerSet, initDone>>
       ELSE /\ providerSet' = TRUE
            /\ obj' = [obj EXCEPT ![i] =
                         [@ EXCEPT !.app_name = boot.service_name,
                                   !._meter = boot.service_name,
                                   !._initialized = "true"]]
            /\ initDone' = Set(initDone, i, TRUE)
    /\ boot' = [boot EXCEPT !.pc = "fastapi_metrics"]
    /\ UNCHANGED <<flags, cls_instance, cls_lock, nOutgoing, nCreated, notStart>>

\* setup_otel lines 50-55: register_fastapi_metrics(app, service_name)
\* (custom_metrics_manager.py lines 97-104)
Setup_FastapiMetrics ==
    LET i == boot.custom_metrics_manager IN
    /\ At("fastapi_metrics")
    /\ IF ~Enabled("OTEL_ENABLE_FASTAPI_METRICS")
       THEN /\ boot' = [boot EXCEPT !.pc = "outgoing_metrics"]
            /\ UNCHANGED obj
       ELSE IF ~IsInitialized(i)
       THEN /\ boot' = [boot EXCEPT !.error = "RuntimeError"]
            /\ UNCHANGED obj
       ELSE /\ boot' = [boot EXCEPT !.pc = "outgoing_metrics"]
            /\ obj' = IF obj[i]._fastapi_metrics_manager.tag = None
                      THEN SetAttr(i, "_fastapi_metrics_manager",
                                   FastAPIMetricsManager(i, obj[i]._meter))
                      ELSE obj
    /\ UNCHANGED <<flags, cls_instance, cls_lock, providerSet, nOutgoing, nCreated,
                   initCalled, initDone, notStart>>

\* register_outgoing_http_metrics(app_name, service_name) run to its end
\* (custom_metrics_manager.py lines 110-115): the sub-manager it leaves in
\* the slot of manager i
Registered(i, app, svc) ==
    IF SlotOf(i).tag = None
    THEN OutgoingHttpMetricsManager(i, nOutgoing[i] + 1, obj[i]._meter, app, svc)
    ELSE SlotOf(i)

\* setup_otel lines 58-63: register_outgoing_http_metrics(service_name, service_name)
Setup_OutgoingMetrics ==
    LET i == boot.custom_metrics_manager IN
    /\ At("outgoing_metrics")
    /\ IF ~Enabled("OTEL_ENABLE_OUTGOING_HTTP_METRICS")
       THEN /\ boot' = [boot EXCEPT !.pc = "pyroscope"]
            /\ UNCHANGED <<obj, nOutgoing>>
       ELSE IF ~IsInitialized(i)
       THEN /\ boot' = [boot EXCEPT !.error = "RuntimeError"]
            /\ UNCHANGED <<obj, nOutgoing>>
       ELSE /\ boot' = [boot EXCEPT !.pc = "pyroscope"]
            /\ obj' = SetAttr(i, "_outgoing_http_metrics_manager",
                              Registered(i, boot.service_name, boot.service_name))
            /\ nOutgoing' = IF SlotOf(i).tag = None
                            THEN Set(nOutgoing, i, nOutgoing[i] + 1) ELSE nOutgoing
    /\ UNCHANGED <<flags, cls_instance, cls_lock, providerSet, nCreated,
                   initCalled, initDone, notStart>>

\* setup_otel lines 68-77
Setup_Pyroscope ==
    /\ At("pyroscope")
    /\ boot' = [boot EXCEPT
                  !.pc = "main_manager",
                  !.done = IF Enabled("OTEL_ENABLE_PYROSCOPE")
                           THEN @ \cup {"pyroscope"} ELSE @]
    /\ UNCHANGED <<flags, cls_instance, cls_lock, obj, providerSet, nOutgoing,
                   nCreated, initCalled, initDone, notStart>>

\* main.py line 50: custom_metrics_manager = CustomMetricsManager()
Main_Manager ==
    /\ At("main_manager")
    /\ Construct("main_get_or_create")
    /\ UNCHANGED <<flags, providerSet, nOutgoing, initCalled, initDone, notStart>>

\* main.py line 51: outgoing_http_metrics_manager =
\*     custom_metrics_manager.get_or_create_outgoing_http_metrics_manager()
\* (custom_metrics_manager.py lines 74-80); the error it raises ends the import
Main_GetOrCreate ==
    LET i == boot.custom_metrics_manager IN
    /\ At("main_get_or_create")
    /\ IF ~IsInitialized(i)
       THEN /\ boot' = [boot EXCEPT !.error = "RuntimeError"]
            /\ UNCHANGED <<obj, nOutgoing>>
       ELSE /\ obj' = SetAttr(i, "_outgoing_http_metrics_manager",
                              Registered(i, obj[i].app_name, obj[i].app_name))
            /\ nOutgoing' = IF SlotOf(i).tag = None
                            THEN Set(nOutgoing, i, nOutgoing[i] + 1) ELSE nOutgoing
            /\ boot' = [boot EXCEPT
                          !.pc = "serving",
                          !.outgoing_http_metrics_manager =
                              Registered(i, obj[i].app_name, obj[i].app_name)]
    /\ UNCHANGED <<flags, cls_instance, cls_lock, providerSet, nCreated,
                   initCalled, initDone, notStart>>

NextStart ==
    \/ LoadConfigs
    \/ Setup_LogExport
    \/ Setup_CustomMetrics
    \/ Setup_Manager
    \/ Setup_Init
    \/ Setup_FastapiMetrics
    \/ Setup_OutgoingMetrics
    \/ Setup_Pyroscope
    \/ Main_Manager
    \/ Main_GetOrCreate

\* ------------------------------------------------------- specifications
\* the manager used by the threads
Init == InitMgr /\ InitHttp /\ AttrIdle /\ BootIdle
Spec == Init /\ [][Next]_vars

\* the process starting up in some environment
InitBoot == InitMgr /\ InitHttp /\ AttrIdle /\ InitStart
SpecStart == InitBoot /\ [][NextStart]_vars

\* the middleware handling requests
SpecHttp == Init /\ [][NextHttp]_vars

\* the metrics calls composing attributes
InitWithEnv == InitMgr /\ InitHttp /\ InitAttr /\ BootIdle
SpecAttr == InitWithEnv /\ [][NextAttr]_vars

\* ================================================================ claims
\* (checked under Spec: the manager used by the threads)

Slot(i) == obj[i]._outgoing_http_metrics_manager

\* thread t takes the step
Steps(t) == th'[t] # th[t]

\* C1: concurrent first-time calls of CustomMetricsManager() construct at
\* most one instance, and every caller gets that same instance.
C1_SingleInstance ==
    /\ nCreated <= 1
    /\ \A t, u \in Threads :
          (th[t].self # 0 /\ th[u].self # 0) => th[t].self = th[u].self

\* C2: on each manager the outgoing-HTTP sub-manager is constructed at most
\* once, whatever the interleaving of get_or_create and register calls, and
\* never before an init call has completed.
C2_OutgoingConstructedOnce ==
    \A i \in Threads : nOutgoing[i] <= 1 /\ (nOutgoing[i] >= 1 => initDone[i])

\* C3: on a manager on which init was never called, a call of
\* get_or_create_outgoing_http_metrics_manager, register_outgoing_http_metrics
\* or register_fastapi_metrics ends at its first statement with the
\* uninitialized error (RuntimeError) and changes no field of the manager,
\* on every repetition.
C3_UninitializedCallsFail ==
    [][\A t \in Threads :
         (Steps(t) /\ th[t].pc \in {"g1", "r1", "f1"} /\ ~initCalled[th[t].self])
            => /\ th'[t].pc = "idle"
               /\ th'[t].result = "RuntimeError"
               /\ obj' = obj
               /\ nOutgoing' = nOutgoing]_vars

\* C3 witness: with init never called, a second call has failed with the
\* uninitialized error too.
C3_Witness ==
    \E t \in Threads :
        /\ th[t].pc = "idle" /\ th[t].result = "RuntimeError"
        /\ ~initCalled[th[t].self]
        /\ opsLeft <= MaxOps - 2
        /\ obj[th[t].self]._initialized = "false"

\* The sub-manager of manager i is in place and settled: the slot holds an
\* object, construction of the manager is over (no thread is still inside the
\* assignments of __init__), and no call that found the slot empty is still
\* on its way to store an object.
Settled(i) ==
    /\ Slot(i).tag = "outgoing"
    /\ \A t \in Threads :
          th[t].self = i => th[t].pc \notin {"i2", "i3", "i4", "i5", "i6", "r3", "r4"}

\* C7: once the sub-manager has been created (and the calls that raced with
\* its creation have returned), every later call leaves it in place: no step
\* changes the slot or constructs another object, get_or_create returns the
\* identical instance, with the names it was bound to.
C7_SubManagerStaysInPlace ==
    [][\A i \in Threads :
         Settled(i) =>
            /\ Settled(i)'
            /\ Slot(i)' = Slot(i)
            /\ nOutgoing'[i] = nOutgoing[i]
            /\ \A t \in Threads :
                  (Steps(t) /\ th[t].self = i /\ th[t].pc = "g5")
                     => th'[t].result = "ok" /\ th'[t].ret = Slot(i)]_vars

\* C7 witness: two get_or_create calls have returned the one instance that
\* is in place.
C7_Witness ==
    \E i \in Threads :
        /\ Settled(i)
        /\ nOutgoing[i] = 1
        /\ \A t \in Threads :
              th[t].self = i /\ th[t].pc = "idle" /\ th[t].result = "ok"
              /\ th[t].ret = Slot(i)

\* C8: init on an initialized manager changes nothing, and once the
\* initialization flag of a manager is set no step ever clears it.
C8_InitNoOpFlagNeverCleared ==
    [][\A i \in Threads :
         /\ obj[i]._initialized = "true" => obj'[i]._initialized = "true"
         /\ \A t \in Threads :
               (Steps(t) /\ th[t].self = i /\ th[t].pc = "t1" /\ IsInitialized(i))
                  => obj' = obj /\ th'[t].pc = "idle"]_vars

\* a field holds a value: it was assigned and is not None
NonNull(v) == v \notin {Absent, None}

\* C11: in every state of every manager, the states between two statements
\* of init included, the metering handle is non-null exactly when the
\* initialization flag is set, and a sub-manager field that holds an object
\* implies the flag is set.
C11_MeterIffInitialized ==
    \A i \in Threads :
        /\ NonNull(obj[i]._meter) <=> obj[i]._initialized = "true"
        /\ NonNull(obj[i]._fastapi_metrics_manager.tag) => obj[i]._initialized = "true"
        /\ NonNull(obj[i]._outgoing_http_metrics_manager.tag)
              => obj[i]._initialized = "true"
\* ---------------------------------------------------------------------
\* (checked under SpecHttp: the middleware)

\* the request has been answered
Answered == hpc = "done"

\* The paths of the model that lie under /api or /public/api and are not
\* health-check paths (/api/healthcheck...), listed by hand.
C4_ProtectedPaths ==
    {P_api, P_api_v1, P_apiary, P_public_api_v1, P_public_api_healthcheck}

\* C4: a request without the x-tenant-id header is answered with the 400
\* response naming its path, the downstream handler not invoked, exactly
\* when its path is protected; on every other path the handler is invoked.
C4_MissingHeader400 ==
    (Answered /\ req.tenant = NoHeader) =>
        IF req.path \in C4_ProtectedPaths
        THEN /\ resp.status = 400
             /\ resp.body.kind = "Bad Request"
             /\ resp.body.text = "Missing 'x-tenant-id' header in the request: "
             /\ resp.body.path = req.path
             /\ ~handlerCalled
        ELSE /\ handlerCalled
             /\ resp.body.text # "Missing 'x-tenant-id' header in the request: "

\* C4 witness: /public/api/healthcheck without the header was refused, after
\* /api/healthcheck/status without the header was served.
C4_Witness ==
    /\ Answered /\ req.tenant = NoHeader
    /\ req.path = P_public_api_healthcheck
    /\ resp.status = 400 /\ ~handlerCalled
    /\ Len(accessLog) = 1 /\ accessLog[1].path = P_healthcheck_status
    /\ accessLog[1].tenant_id = "N/A" /\ accessLog[1].status_code = 200

\* C5: when the downstream handler raises, the middleware returns status 500
\* with the fixed body, whatever the error was.
C5_HandlerFailure500 ==
    (hpc \in {"log", "done"} /\ raised # "") =>
        resp = [status |-> 500,
                body |-> [kind |-> "error_code 500, success false",
                          text |-> "An unexpected error occurred. Please try again later.",
                          path |-> <<>>, detail |-> ""]]

\* C5 witness: the /exception handler raised and the request was answered 500.
C5_Witness ==
    /\ Answered /\ req.path = P_exception /\ raised = "Exception"
    /\ resp.status = 500
    /\ Len(errorLog) >= 1

\* the access-log lines written for request rid
LinesFor(rid) == {k \in 1..Len(accessLog) : accessLog[k].rid = rid}

\* the one line of the current request carries its method, path and the
\* status of the response returned
OneLine ==
    /\ Cardinality(LinesFor(nReq)) = 1
    /\ \A k \in LinesFor(nReq) :
          /\ accessLog[k].method = req.method
          /\ accessLog[k].path = req.path
          /\ accessLog[k].status_code = resp.status

\* C6 as stated: every answered request except those to "/" has exactly one
\* access-log line; requests to "/" have none.
C6_OneAccessLinePerRequest ==
    Answered => IF req.path = P_root THEN LinesFor(nReq) = {} ELSE OneLine

\* C6 amended: every answered request except those to "/" and those
\* short-circuited with the missing-header 400 has exactly one access-log
\* line; those have none.
C6_OneAccessLineUnlessShortCircuit ==
    Answered =>
        IF req.path = P_root \/ ~handlerCalled THEN LinesFor(nReq) = {} ELSE OneLine

\* C6 witness: the second of two served requests has its one line.
C6_Witness ==
    /\ Answered /\ nReq = 2 /\ handlerCalled /\ req.path # P_root
    /\ Len(accessLog) = 2
    /\ accessLog[2].rid = 2 /\ accessLog[2].status_code = resp.status

\* the response the request gets when its telemetry calls succeed
NominalResponse ==
    LET out == CallNext(req.method, req.path, "none") IN
    IF out.raises # "" THEN ErrorResponse(out.raises) ELSE out.response

\* C9: a failing telemetry call does not change the response the client
\* receives.
C9_TelemetryFailureNotPropagated ==
    (Answered /\ handlerCalled /\ fault # "none") => resp = NominalResponse

\* C14: a request that carries the x-tenant-id header, whatever its value, is
\* never answered with the missing-header 400 response: the downstream
\* handler is invoked.
C14_PresentHeaderReachesHandler ==
    (Answered /\ req.tenant # NoHeader) =>
        /\ handlerCalled
        /\ resp # MissingTenantResponse(req.path)
\* ---------------------------------------------------------------------
\* (checked under SpecAttr: attribute composition)

GlobalKeys == {"k8s_namespace_name", "k8s_pod_name", "tenant_id"}
CallKeys == {"method", "path", "app_name", "service_name"}

\* the value the environment gives a global attribute
C10_GlobalValue(k) ==
    LET name == CASE k = "k8s_namespace_name" -> "K8S_NAMESPACE_NAME"
                  [] k = "k8s_pod_name" -> "K8S_POD_NAME"
                  [] k = "tenant_id" -> "TENANT_ID"
    IN IF env[name] = Unset THEN "unknown" ELSE env[name]

C10_CallValue(k) ==
    CASE k = "method" -> lastCall.method
      [] k = "path" -> lastCall.path
      [] k = "app_name" -> bound.app_name
      [] k = "service_name" -> bound.service_name

\* C10: the attributes of each observation are, key by key: status_code of
\* the call for record_duration_ms; else the caller's extra attribute; else
\* method / path / app_name / service_name; else the global attribute, which
\* exists only when SET_GLOBAL_OTEL_ATTRIBUTES is 'true' ("unknown" if unset).
C10_AttributesAreOrderedMerge ==
    lastCall.fn # "none" =>
        LET a == lastObs.attributes
            isRecord == lastCall.fn = "record"
            globalOn == env["SET_GLOBAL_OTEL_ATTRIBUTES"] = "true"
        IN
        /\ DOMAIN a = (IF globalOn THEN GlobalKeys ELSE {}) \cup CallKeys
                         \cup DOMAIN lastCall.extra
                         \cup (IF isRecord THEN {"status_code"} ELSE {})
        /\ \A k \in DOMAIN a :
              a[k] = IF isRecord /\ k = "status_code" THEN lastCall.status_code
                     ELSE IF k \in DOMAIN lastCall.extra THEN lastCall.extra[k]
                     ELSE IF k \in CallKeys THEN C10_CallValue(k)
                     ELSE C10_GlobalValue(k)

\* C10 witness: with global attributes on and TENANT_ID unset, a duration was
\* recorded with status 200 by a caller whose extra attributes said 404.
C10_Witness ==
    /\ lastCall.fn = "record" /\ ~lastCall.omitted
    /\ lastCall.extra = [status_code |-> 404]
    /\ lastCall.status_code = 200
    /\ env["SET_GLOBAL_OTEL_ATTRIBUTES"] = "true" /\ env["TENANT_ID"] = Unset
    /\ lastObs.attributes["status_code"] = 200
    /\ lastObs.attributes["tenant_id"] = "unknown"

\* C13: when the caller omits extra_attributes, a counter observation carries
\* no status_code and a histogram observation carries the status_code of its
\* own call, whatever calls were made before; the default dict of the counter
\* call stays empty and the one of the histogram call holds nothing but the
\* status_code of the last call that used it.
C13_NoLeakAcrossDefaultCalls ==
    /\ default_increment = EmptyDict
    /\ DOMAIN default_record \subseteq {"status_code"}
    /\ (lastCall.fn = "increment" /\ lastCall.omitted)
          => "status_code" \notin DOMAIN lastObs.attributes
    /\ (lastCall.fn = "record" /\ lastCall.omitted)
          => /\ lastObs.attributes["status_code"] = lastCall.status_code
             /\ default_record = [status_code |-> lastCall.status_code]

\* C13 witness: a counter call without extra_attributes, made after a
\* histogram call without extra_attributes recorded status 500, carries no
\* status_code.
C13_Witness ==
    /\ lastCall.fn = "increment" /\ lastCall.omitted
    /\ default_record = [status_code |-> 500]
    /\ "status_code" \notin DOMAIN lastObs.attributes
    /\ lastObs.attributes["method"] = "GET"

\* ---------------------------------------------------------------------
\* (checked under SpecStart: the process starting up)

\* C12: in every environment, start-up has completed init on the singleton
\* before it calls get_or_create_outgoing_http_metrics_manager, and never
\* fails with the uninitialized error.
C12_InitBeforeGetOrCreate ==
    /\ boot.error # "RuntimeError"
    /\ boot.pc \in {"main_get_or_create", "serving"}
          => initDone[boot.custom_metrics_manager]
====
